---- MODULE Spec2Model ----
(***************************************************************************)
(* Guard agent (src/Milestone_3.py): the activation listener thread, the   *)
(* webcam surveillance loop and the three-level escalation dialogue.       *)
(*                                                                         *)
(* Strings are sequences of one-character strings, so that lower-casing,   *)
(* substring tests, joins and formatted evidence lines are computed and    *)
(* not assumed.  Times are whole seconds of time.time(); face distances    *)
(* are hundredths (0.45 is 45).                                            *)
(***************************************************************************)
EXTENDS Integers, Sequences, FiniteSets, TLC

(***************************************************************************)
(* Bounds of the model.                                                    *)
(***************************************************************************)
\* Longest transcript enumerated exhaustively for judge_reply.
MaxTextLen ==
    3
\* time.time() when the program starts (seconds; the epoch clock is far past
\* the cooldown, last_escalation_time starts at 0.0).
StartTime ==
    11
\* Seconds of wall-clock time the model follows after the start.
Horizon ==
    11
\* Largest number of trusted embeddings loaded at startup.
MaxTrusted ==
    2

MaxTime ==
    StartTime + Horizon

(***************************************************************************)
(* Configuration (lines 38-47).                                            *)
(***************************************************************************)
ACTIVATION_PHRASE ==
    <<"p","r","o","t","e","c","t"," ","m","y"," ","r","o","o","m">>
DEACTIVATION_PHRASE ==
    <<"s","t","o","p">>
FACE_MATCH_THRESHOLD ==
    45
ESCALATION_COOLDOWN ==
    10

(***************************************************************************)
(* str.lower() and the `in` substring test.                                *)
(***************************************************************************)
UpperCase ==
    <<"A","B","C","D","E","F","G","H","I","J","K","L","M",
      "N","O","P","Q","R","S","T","U","V","W","X","Y","Z">>
LowerCase ==
    <<"a","b","c","d","e","f","g","h","i","j","k","l","m",
      "n","o","p","q","r","s","t","u","v","w","x","y","z">>

LowerChar(c) ==
    IF \E i \in 1..26 : UpperCase[i] = c
    THEN LowerCase[CHOOSE i \in 1..26 : UpperCase[i] = c]
    ELSE c

Lower(s) ==
    [i \in 1..Len(s) |-> LowerChar(s[i])]

\* kw in t
Contains(kw, t) ==
    \E i \in 1..(Len(t) - Len(kw) + 1) : SubSeq(t, i, i + Len(kw) - 1) = kw

(***************************************************************************)
(* judge_reply (lines 135-158).                                            *)
(***************************************************************************)
CooperativeKeywords ==
    { <<"s","o","r","r","y">>,
      <<"i"," ","w","i","l","l"," ","l","e","a","v","e">>,
      <<"i"," ","w","i","l","l"," ","g","o">>,
      <<"i"," ","w","i","l","l"," ","g","e","t"," ","o","u","t">>,
      <<"i","'","m"," ","l","e","a","v","i","n","g">> }

DefiantKeywords ==
    { <<"n","o">>,
      <<"i"," ","w","i","l","l"," ","n","o","t">>,
      <<"i","'","m"," ","n","o","t">>,
      <<"n","o","n","e"," ","o","f"," ","y","o","u","r"," ","b","u","s","i","n","e","s","s">>,
      <<"r","e","f","u","s","e">> }

\* Mutation: the length test is made before the keyword tests.
judge_reply_length_first(t) ==
    IF t = <<>> \/ Len(Lower(t)) < 3 THEN "no_response"
    ELSE IF \E kw \in CooperativeKeywords : Contains(kw, Lower(t)) THEN "ok"
    ELSE IF \E kw \in DefiantKeywords : Contains(kw, Lower(t)) THEN "refuse"
    ELSE "suspicious"

judge_reply(t) ==
    IF t = <<>> THEN "no_response"
    ELSE IF \E kw \in CooperativeKeywords : Contains(kw, Lower(t)) THEN "ok"
    ELSE IF \E kw \in DefiantKeywords : Contains(kw, Lower(t)) THEN "refuse"
    ELSE IF Len(Lower(t)) < 3 THEN "no_response"
    ELSE "suspicious"

(***************************************************************************)
(* Transcripts.                                                            *)
(***************************************************************************)
Alphabet ==
    {"n", "o", "N", "O", "h", "m"}

RECURSIVE StringsUpTo(_)
StringsUpTo(n) ==
    IF n = 0 THEN { <<>> }
    ELSE LET shorter == StringsUpTo(n - 1)
         IN  shorter \cup { Append(s, c) : s \in { x \in shorter : Len(x) = n - 1 },
                                            c \in Alphabet }

T_sorry_leave ==
    <<"I","'","m"," ","s","o","r","r","y",","," ","I"," ","w","i","l","l"," ","l","e","a","v","e">>
T_no_business ==
    <<"n","o",","," ","n","o","n","e"," ","o","f"," ","y","o","u","r"," ","b","u","s","i","n","e","s","s">>
T_hm ==
    <<"h","m">>
T_upstairs ==
    <<"I"," ","l","i","v","e"," ","u","p","s","t","a","i","r","s">>
T_sorry_no ==
    <<"S","o","r","r","y",","," ","n","o">>
T_refuse ==
    <<"I"," ","R","E","F","U","S","E">>
T_will_go ==
    <<"I"," ","W","i","l","l"," ","G","o">>
T_get_out ==
    <<"I"," ","w","i","l","l"," ","g","e","t"," ","o","u","t">>
T_leaving ==
    <<"I","'","m"," ","l","e","a","v","i","n","g">>
T_im_not ==
    <<"I","'","m"," ","n","o","t">>
T_will_not ==
    <<"I"," ","w","i","l","l"," ","n","o","t">>
T_know ==
    <<"I"," ","k","n","o","w"," ","h","i","m">>

SampleTexts ==
    { T_sorry_leave, T_no_business, T_hm, T_upstairs, T_sorry_no, T_refuse,
      T_will_go, T_get_out, T_leaving, T_im_not, T_will_not, T_know }

\* The transcripts judge_reply is checked on.
Texts ==
    StringsUpTo(MaxTextLen) \cup SampleTexts

\* What recognize_google returns for a reply during an escalation.
R_sorry ==
    <<"S","o","r","r","y">>
R_no ==
    <<"N","o">>
R_guest ==
    <<"G","u","e","s","t">>
Replies ==
    { R_sorry, R_no, R_guest }

\* What recognize_google returns to the activation listener.
U_protect ==
    <<"P","r","o","t","e","c","t"," ","m","y"," ","r","o","o","m">>
U_stop ==
    <<"S","t","o","p">>
U_both ==
    <<"S","t","o","p"," ","p","r","o","t","e","c","t"," ","m","y"," ","r","o","o","m">>
U_hello ==
    <<"H","e","l","l","o">>

Utterances ==
    { U_protect, U_stop, U_both, U_hello }

(***************************************************************************)
(* State.                                                                  *)
(***************************************************************************)
VARIABLES
    protect_mode,               \* line 74
    listening_thread_running,   \* line 75
    last_escalation_time,       \* line 76
    trusted_names,              \* lines 56-68, one name per embedding
    clock,                      \* the last value time.time() returned
    starts,                     \* the times stamped by line 366, in order
    mpc,                        \* main_loop: position
    boxes,                      \* main_loop: number of detected faces
    distances,                  \* main_loop: distances to the embeddings
    name,                       \* main_loop: verdict
    tread,                      \* main_loop: protect_mode as loaded by line 381
    epc,                        \* escalate_interaction: position
    level,                      \* escalate_interaction: loop variable
    transcript,                 \* escalate_interaction: this level's transcript
    transcripts,                \* escalate_interaction: (level, transcript) pairs
    judgement,                  \* escalate_interaction: judge_reply's result
    res,                        \* escalate_interaction: the returned dict
    calls,                      \* prompts spoken, listens and judgements, in order
    alarms,                     \* play_alarm() calls of this invocation
    evidence,                   \* evidence files written by this invocation
    lpc,                        \* listen_for_activation: position
    text,                       \* listen_for_activation: lower-cased utterance
    lin                         \* outcomes of the mode operations taken one at a time

vars ==
    << protect_mode, listening_thread_running, last_escalation_time, trusted_names,
       clock, starts, mpc, boxes, distances, name, tread, epc, level, transcript,
       transcripts, judgement, res, calls, alarms, evidence, lpc, text, lin >>

globalVars ==
    << protect_mode, listening_thread_running, last_escalation_time, trusted_names,
       clock, starts >>
mainVars ==
    << mpc, boxes, distances, name, tread >>
engineVars ==
    << epc, level, transcript, transcripts, judgement, res, calls, alarms, evidence >>
listenerVars ==
    << lpc, text >>

NoRes ==
    [action |-> "none", level |-> 0, transcript |-> <<>>]


(***************************************************************************)
(* The mode operations taken one at a time (the Guard Mode Controller of   *)
(* the design): what the listener's handling of one utterance and the      *)
(* manual toggle do to the mode when nothing runs in between.  lin holds   *)
(* every mode that some order of the operations begun so far can give, an  *)
(* operation taking effect at one instant between its first and its last   *)
(* step; l and t say whether the listener's and the loop's operation in    *)
(* progress has already taken effect.  lin is followed under SpecMode.     *)
(***************************************************************************)
ListenerOp(txt, m) ==
    IF Contains(ACTIVATION_PHRASE, txt) /\ ~m THEN TRUE
    ELSE IF Contains(DEACTIVATION_PHRASE, txt) /\ m THEN FALSE
    ELSE m

ToggleOp(m) ==
    ~m

LinStep(S, pendL, txt, pendT) ==
    S \cup { [m |-> ListenerOp(txt, c.m), l |-> TRUE, t |-> c.t] :
                 c \in { x \in S : pendL /\ ~x.l } }
      \cup { [m |-> ToggleOp(c.m), l |-> c.l, t |-> TRUE] :
                 c \in { x \in S : pendT /\ ~x.t } }

LinClose(S, pendL, txt, pendT) ==
    LinStep(LinStep(S, pendL, txt, pendT), pendL, txt, pendT)

ListenerPending ==
    lpc \in {"check_act", "arm", "check_deact", "disarm"}

TogglePending ==
    mpc = "toggle_write"

LinListenerDone ==
    LinClose({ [c EXCEPT !.l = FALSE] : c \in { x \in lin : x.l } },
             FALSE, <<>>, TogglePending)

LinToggleDone ==
    LinClose({ [c EXCEPT !.t = FALSE] : c \in { x \in lin : x.t } },
             ListenerPending, text, FALSE)

(***************************************************************************)
(* Initial state: the module-level code, lines 33-76 and 295-296.          *)
(***************************************************************************)
Names ==
    <<"alice", "bob">>

\* The names of the first n embeddings loaded from trusted_faces.
LoadedNames(n) ==
    [i \in 1..n |-> Names[((i - 1) % 2) + 1]]

EngineIdle ==
    /\ epc = "idle"
    /\ level = 0
    /\ transcript = <<>>
    /\ transcripts = <<>>
    /\ judgement = "none"
    /\ res = NoRes
    /\ calls = <<>>
    /\ alarms = 0
    /\ evidence = <<>>

\* The program started at time t0; lin0 is the initial value of lin.
InitAt(t0, lin0) ==
    /\ protect_mode = FALSE
    /\ listening_thread_running = TRUE
    /\ last_escalation_time = 0
    /\ trusted_names \in { LoadedNames(n) : n \in {0, MaxTrusted} }
    /\ clock = t0
    /\ starts = <<>>
    /\ mpc = "open"
    /\ boxes = 0
    /\ distances = <<>>
    /\ name = "none"
    /\ tread = FALSE
    /\ EngineIdle
    /\ lpc = "init"
    /\ text = <<>>
    /\ lin = lin0

\* lin is followed only under SpecMode: from the empty set it stays empty.
Init ==
    InitAt(StartTime, {})

(***************************************************************************)
(* listen_for_activation (lines 241-292), the background thread.           *)
(***************************************************************************)
\* Lines 249-257: the microphone is opened and calibrated; on any error the
\* function logs it and returns.
L_Init ==
    /\ lpc = "init"
    /\ \/ lpc' = "loop"
       \/ lpc' = "exited"
    /\ UNCHANGED << globalVars, mainVars, engineVars, text, lin >>

\* Line 260: the loop condition; lines 262-264: the microphone is entered and
\* recognizer.listen is called.
L_Loop ==
    /\ lpc = "loop"
    /\ lpc' = IF listening_thread_running THEN "listen" ELSE "exited"
    /\ UNCHANGED << globalVars, mainVars, engineVars, text, lin >>

\* Line 264 returns audio, or raises (WaitTimeoutError, line 283; any other
\* exception, line 290) and the loop goes round.
L_Listen ==
    /\ lpc = "listen"
    /\ \/ lpc' = "recognize"
       \/ lpc' = "loop"
    /\ UNCHANGED << globalVars, mainVars, engineVars, text, lin >>

\* Line 267: recognize_google(audio).lower(), or UnknownValueError (line 285)
\* or RequestError (line 287).
L_Recognize ==
    /\ lpc = "recognize"
    /\ \/ \E u \in Utterances :
             /\ text' = Lower(u)
             /\ lpc' = "check_act"
             /\ lin' = LinClose(lin, TRUE, Lower(u), TogglePending)
       \/ /\ lpc' = "loop"
          /\ UNCHANGED << text, lin >>
    /\ UNCHANGED << globalVars, mainVars, engineVars >>

\* Mutation: the activation branch is taken whatever the mode is.
L_CheckAct_any_mode ==
    /\ lpc = "check_act"
    /\ lpc' = IF Contains(ACTIVATION_PHRASE, text) THEN "arm" ELSE "check_deact"
    /\ UNCHANGED << globalVars, mainVars, engineVars, text, lin >>

\* Line 271: ACTIVATION_PHRASE in text and not protect_mode.
L_CheckAct ==
    /\ lpc = "check_act"
    /\ lpc' = IF Contains(ACTIVATION_PHRASE, text) /\ ~protect_mode
              THEN "arm" ELSE "check_deact"
    /\ UNCHANGED << globalVars, mainVars, engineVars, text, lin >>

\* Lines 272-274.
L_Arm ==
    /\ lpc = "arm"
    /\ protect_mode' = TRUE
    /\ lpc' = "loop"
    /\ text' = <<>>
    /\ lin' = LinListenerDone
    /\ UNCHANGED << listening_thread_running, last_escalation_time, trusted_names,
                    clock, starts, mainVars, engineVars >>

\* Line 277: DEACTIVATION_PHRASE in text and protect_mode.
L_CheckDeact ==
    /\ lpc = "check_deact"
    /\ IF Contains(DEACTIVATION_PHRASE, text) /\ protect_mode
       THEN /\ lpc' = "disarm"
            /\ UNCHANGED << text, lin >>
       ELSE /\ lpc' = "loop"
            /\ text' = <<>>
            /\ lin' = LinListenerDone
    /\ UNCHANGED << globalVars, mainVars, engineVars >>

\* Lines 278-280.
L_Disarm ==
    /\ lpc = "disarm"
    /\ protect_mode' = FALSE
    /\ lpc' = "loop"
    /\ text' = <<>>
    /\ lin' = LinListenerDone
    /\ UNCHANGED << listening_thread_running, last_escalation_time, trusted_names,
                    clock, starts, mainVars, engineVars >>

listen_for_activation ==
    \/ L_Init
    \/ L_Loop
    \/ L_Listen
    \/ L_Recognize
    \/ L_CheckAct
    \/ L_Arm
    \/ L_CheckDeact
    \/ L_Disarm


(***************************************************************************)
(* escalate_interaction (lines 160-237), called by main_loop at line 372.  *)
(* An exception it does not catch leaves it, and main_loop (which catches  *)
(* nothing), with no return value: epc and mpc become "raised".            *)
(***************************************************************************)
FirstLevel ==
    1
LastLevel ==
    3

\* Mutation: silence is taken for cooperation.
StandsDown_lenient(j) ==
    j \in {"ok", "no_response"}

\* Line 206.
StandsDown(j) ==
    j = "ok"

\* Line 211.
Refuses(j) ==
    j = "refuse"

\* Mutation: the loop runs over (1, 3).
NextLevel_skip(l) ==
    IF l = 1 THEN 3 ELSE l + 1

\* for level in (1, 2, 3), line 170.
NextLevel(l) ==
    l + 1

Digit(n) ==
    <<"0","1","2","3","4","5","6","7","8","9">>[n + 1]

\* "|".join([t for _, t in transcripts]), line 237.
RECURSIVE JoinTranscripts(_)
JoinTranscripts(ts) ==
    IF ts = <<>> THEN <<>>
    ELSE IF Len(ts) = 1 THEN ts[1][2]
    ELSE ts[1][2] \o <<"|">> \o JoinTranscripts(Tail(ts))

\* The file written by lines 233-235: one line "L<level>: <transcript>" a level.
RECURSIVE EvidenceLines(_)
EvidenceLines(ts) ==
    IF ts = <<>> THEN <<>>
    ELSE <<"L", Digit(ts[1][1]), ":", " ">> \o ts[1][2] \o <<"\n">>
         \o EvidenceLines(Tail(ts))

Raise ==
    /\ epc' = "raised"
    /\ mpc' = "raised"

\* Lines 165-167: sr.Microphone() is constructed outside any try.
E_Mic ==
    /\ epc = "mic"
    /\ \/ /\ epc' = "prompt"
          /\ level' = FirstLevel
          /\ transcripts' = <<>>
          /\ UNCHANGED mpc
       \/ /\ Raise
          /\ UNCHANGED << level, transcripts >>
    /\ UNCHANGED << globalVars, boxes, distances, name, tread, transcript,
                    judgement, res, calls, alarms, evidence, listenerVars, lin >>

\* Lines 171-183: the level's prompt is spoken, transcript is set to "" and
\* the microphone is entered; the with statement is outside the try of
\* line 184.
E_Prompt ==
    /\ epc = "prompt"
    /\ calls' = Append(calls, <<"prompt", level>>)
    /\ transcript' = <<>>
    /\ \/ /\ epc' = "listen"
          /\ UNCHANGED mpc
       \/ Raise
    /\ UNCHANGED << globalVars, boxes, distances, name, tread, level, transcripts,
                    judgement, res, alarms, evidence, listenerVars, lin >>

\* Lines 184-196: listen and recognize_google; every exception is caught and
\* leaves transcript "".
E_Listen ==
    /\ epc = "listen"
    /\ \/ \E r \in Replies : transcript' = r
       \/ transcript' = <<>>
    /\ calls' = Append(calls, <<"listen", level>>)
    /\ epc' = "judge"
    /\ UNCHANGED << globalVars, mainVars, level, transcripts, judgement, res,
                    alarms, evidence, listenerVars, lin >>

\* Lines 198-224: the transcript is kept and judged; then stand down, or
\* warn and start the alarm, or pause and go on to the next level, leaving
\* the loop after the last.
E_Judge ==
    /\ epc = "judge"
    /\ transcripts' = Append(transcripts, <<level, transcript>>)
    /\ judgement' = judge_reply(transcript)
    /\ calls' = Append(calls, <<"judge", level>>)
    /\ IF StandsDown(judgement')
       THEN /\ res' = [action |-> "stand_down", level |-> level,
                       transcript |-> transcript]
            /\ epc' = "returned"
            /\ UNCHANGED << level, alarms >>
       ELSE IF Refuses(judgement')
       THEN /\ alarms' = alarms + 1
            /\ epc' = "evidence"
            /\ UNCHANGED << level, res >>
       ELSE IF level = LastLevel
       THEN /\ epc' = "final"
            /\ UNCHANGED << level, res, alarms >>
       ELSE /\ level' = NextLevel(level)
            /\ epc' = "prompt"
            /\ UNCHANGED << res, alarms >>
    /\ UNCHANGED << globalVars, mainVars, transcript, evidence, listenerVars, lin >>

\* Lines 216-221: cv2.imwrite reports a failure by returning False, which is
\* not looked at; open and write raise on failure and are not in a try.
E_Evidence ==
    /\ epc = "evidence"
    /\ \/ \E img \in BOOLEAN :
             /\ evidence' = Append(evidence, [image |-> img, text |-> transcript])
             /\ res' = [action |-> "record_and_warn", level |-> level,
                        transcript |-> transcript]
             /\ epc' = "returned"
             /\ UNCHANGED mpc
       \/ /\ Raise
          /\ UNCHANGED << evidence, res >>
    /\ UNCHANGED << globalVars, boxes, distances, name, tread, level, transcript,
                    transcripts, judgement, calls, alarms, listenerVars, lin >>

\* Lines 227-228.
E_Final ==
    /\ epc = "final"
    /\ alarms' = alarms + 1
    /\ epc' = "final_evidence"
    /\ UNCHANGED << globalVars, mainVars, level, transcript, transcripts,
                    judgement, res, calls, evidence, listenerVars, lin >>

\* Lines 231-237.
E_FinalEvidence ==
    /\ epc = "final_evidence"
    /\ \/ \E img \in BOOLEAN :
             /\ evidence' = Append(evidence, [image |-> img,
                                              text |-> EvidenceLines(transcripts)])
             /\ res' = [action |-> "record_and_warn", level |-> LastLevel,
                        transcript |-> JoinTranscripts(transcripts)]
             /\ epc' = "returned"
             /\ UNCHANGED mpc
       \/ /\ Raise
          /\ UNCHANGED << evidence, res >>
    /\ UNCHANGED << globalVars, boxes, distances, name, tread, level, transcript,
                    transcripts, judgement, calls, alarms, listenerVars, lin >>

escalate_interaction ==
    \/ E_Mic
    \/ E_Prompt
    \/ E_Listen
    \/ E_Judge
    \/ E_Evidence
    \/ E_Final
    \/ E_FinalEvidence


(***************************************************************************)
(* main_loop (lines 299-391), the main thread.                             *)
(***************************************************************************)
DistVals ==
    (FACE_MATCH_THRESHOLD - 1)..(FACE_MATCH_THRESHOLD + 1)

\* np.argmin: the first index of the least distance.
ArgMin(d) ==
    CHOOSE i \in 1..Len(d) :
        /\ \A j \in 1..Len(d) : d[i] <= d[j]
        /\ \A j \in 1..(i - 1) : d[j] > d[i]

\* Mutation: a distance equal to the threshold is taken for a match.
Match_le(d) ==
    IF d[ArgMin(d)] <= FACE_MATCH_THRESHOLD THEN trusted_names[ArgMin(d)]
    ELSE "Unknown"

\* Lines 348-355, for a non-empty array of distances.
Match(d) ==
    IF d[ArgMin(d)] < FACE_MATCH_THRESHOLD THEN trusted_names[ArgMin(d)]
    ELSE "Unknown"

\* Mutation: the cooldown test admits a start exactly ESCALATION_COOLDOWN later.
CooldownElapsed_ge(t) ==
    (t - last_escalation_time) >= ESCALATION_COOLDOWN

\* Line 364.
CooldownElapsed(t) ==
    (t - last_escalation_time) > ESCALATION_COOLDOWN

\* time.time(): no earlier than the value it returned last.
ClockReadings ==
    clock..MaxTime

\* Lines 310-313: if the camera cannot be opened main_loop returns at once.
M_Open ==
    /\ mpc = "open"
    /\ \/ mpc' = "read"
       \/ mpc' = "done"
    /\ UNCHANGED << globalVars, boxes, distances, name, tread, engineVars,
                    listenerVars, lin >>

\* Mutation: the frame is analysed whatever the mode is.
M_Read_any_mode ==
    /\ mpc = "read"
    /\ \/ mpc' = "cleanup"
       \/ mpc' = "detect"
    /\ UNCHANGED << globalVars, boxes, distances, name, tread, engineVars,
                    listenerVars, lin >>

\* Lines 319-332: a failed read leaves the loop; otherwise the frame is
\* analysed only when protect_mode is set.
M_Read ==
    /\ mpc = "read"
    /\ \/ mpc' = "cleanup"
       \/ mpc' = IF protect_mode THEN "detect" ELSE "key"
    /\ UNCHANGED << globalVars, boxes, distances, name, tread, engineVars,
                    listenerVars, lin >>

\* Lines 336-355: the faces of the frame, and for the first of them the
\* distances and the verdict.  With no trusted embedding, distances is the
\* list [] of line 347, and line 351 reads its attribute size: AttributeError.
M_Detect ==
    /\ mpc = "detect"
    /\ \E n \in 0..1 :
         /\ boxes' = n
         /\ IF n = 0
            THEN /\ mpc' = "key"
                 /\ UNCHANGED << distances, name >>
            ELSE IF trusted_names = <<>>
            THEN /\ distances' = <<>>
                 /\ name' = "Unknown"
                 /\ mpc' = "raised"
            ELSE \E d \in [1..Len(trusted_names) -> DistVals] :
                    /\ distances' = d
                    /\ name' = Match(d)
                    /\ mpc' = "cooldown"
    /\ UNCHANGED << globalVars, tread, engineVars, listenerVars, lin >>

\* Lines 363-364: time.time() is read only for an unknown face.
M_Cooldown ==
    /\ mpc = "cooldown"
    /\ IF name = "Unknown"
       THEN \E t \in ClockReadings :
               /\ clock' = t
               /\ mpc' = IF CooldownElapsed(t) THEN "stamp" ELSE "key"
       ELSE /\ mpc' = "key"
            /\ UNCHANGED clock
    /\ distances' = <<>>
    /\ UNCHANGED << protect_mode, listening_thread_running, last_escalation_time,
                    trusted_names, starts, boxes, name, tread, engineVars,
                    listenerVars, lin >>

\* Mutation: the escalation is started without waiting for it; the loop goes
\* on to the key.
M_Stamp_no_wait ==
    /\ mpc = "stamp"
    /\ \E t \in ClockReadings :
         /\ clock' = t
         /\ last_escalation_time' = t
         /\ starts' = Append(starts, t)
    /\ mpc' = "key"
    /\ epc' = "mic"
    /\ UNCHANGED << protect_mode, listening_thread_running, trusted_names, boxes,
                    distances, name, tread, level, transcript, transcripts,
                    judgement, res, calls, alarms, evidence, listenerVars, lin >>

\* Lines 366-372: the start is stamped with a second reading of the clock,
\* then escalate_interaction is called.
M_Stamp ==
    /\ mpc = "stamp"
    /\ \E t \in ClockReadings :
         /\ clock' = t
         /\ last_escalation_time' = t
         /\ starts' = Append(starts, t)
    /\ mpc' = "escalating"
    /\ epc' = "mic"
    /\ UNCHANGED << protect_mode, listening_thread_running, trusted_names, boxes,
                    distances, name, tread, level, transcript, transcripts,
                    judgement, res, calls, alarms, evidence, listenerVars, lin >>

\* Line 373: the call has returned; its locals are gone.
M_Result ==
    /\ mpc = "escalating"
    /\ epc = "returned"
    /\ mpc' = "key"
    /\ epc' = "idle"
    /\ level' = 0
    /\ transcript' = <<>>
    /\ transcripts' = <<>>
    /\ judgement' = "none"
    /\ res' = NoRes
    /\ calls' = <<>>
    /\ alarms' = 0
    /\ evidence' = <<>>
    /\ UNCHANGED << globalVars, boxes, distances, name, tread, listenerVars, lin >>

\* Lines 376-385: the key read by waitKey.  'a' loads protect_mode for the
\* negation of line 381; 'q' leaves the loop.
M_Key ==
    /\ mpc = "key"
    /\ boxes' = 0
    /\ name' = "none"
    /\ \/ /\ mpc' = "read"
          /\ UNCHANGED << tread, lin >>
       \/ /\ tread' = protect_mode
          /\ mpc' = "toggle_write"
          /\ lin' = LinClose(lin, ListenerPending, text, TRUE)
       \/ /\ mpc' = "cleanup"
          /\ UNCHANGED << tread, lin >>
    /\ UNCHANGED << globalVars, distances, engineVars, listenerVars >>

\* Line 381: the negation of the loaded value is stored.
M_ToggleWrite ==
    /\ mpc = "toggle_write"
    /\ protect_mode' = ~tread
    /\ mpc' = "read"
    /\ lin' = LinToggleDone
    /\ UNCHANGED << listening_thread_running, last_escalation_time, trusted_names,
                    clock, starts, boxes, distances, name, tread, engineVars,
                    listenerVars >>

\* Lines 388-391.
M_Cleanup ==
    /\ mpc = "cleanup"
    /\ listening_thread_running' = FALSE
    /\ mpc' = "done"
    /\ UNCHANGED << protect_mode, last_escalation_time, trusted_names, clock,
                    starts, boxes, distances, name, tread, engineVars, listenerVars, lin >>

main_loop ==
    \/ M_Open
    \/ M_Read
    \/ M_Detect
    \/ M_Cooldown
    \/ M_Stamp
    \/ M_Result
    \/ M_Key
    \/ M_ToggleWrite
    \/ M_Cleanup

(***************************************************************************)
(* The program: the two threads, escalate_interaction running in the main  *)
(* thread.                                                                 *)
(***************************************************************************)
Next ==
    \/ main_loop
    \/ escalate_interaction
    \/ listen_for_activation

Spec ==
    Init /\ [][Next]_vars

(***************************************************************************)
(* The program started late in the horizon (one escalation fits), with the *)
(* mode operations followed in lin.                                        *)
(***************************************************************************)
InitMode ==
    InitAt(MaxTime, { [m |-> FALSE, l |-> FALSE, t |-> FALSE] })

SpecMode ==
    InitMode /\ [][Next]_vars

(***************************************************************************)
(* The program with its threads scheduled: each thread that can take a     *)
(* step eventually takes one (every blocking call of the code, a listen    *)
(* included, is bounded by a timeout).                                     *)
(***************************************************************************)
Fairness ==
    /\ WF_vars(main_loop)
    /\ WF_vars(escalate_interaction)
    /\ WF_vars(listen_for_activation)

SpecLive ==
    Init /\ [][Next]_vars /\ Fairness

(***************************************************************************)
(* judge_reply alone, applied to each transcript of Texts.                 *)
(***************************************************************************)
InitJudge ==
    /\ protect_mode = FALSE
    /\ listening_thread_running = TRUE
    /\ last_escalation_time = 0
    /\ trusted_names = <<>>
    /\ clock = StartTime
    /\ starts = <<>>
    /\ mpc = "off"
    /\ boxes = 0
    /\ distances = <<>>
    /\ name = "none"
    /\ tread = FALSE
    /\ epc = "judge_only"
    /\ level = 0
    /\ transcript \in Texts
    /\ transcripts = <<>>
    /\ judgement = "none"
    /\ res = NoRes
    /\ calls = <<>>
    /\ alarms = 0
    /\ evidence = <<>>
    /\ lpc = "off"
    /\ text = <<>>
    /\ lin = {}

JudgeStep ==
    /\ epc = "judge_only"
    /\ judgement' = judge_reply(transcript)
    /\ epc' = "judged"
    /\ UNCHANGED << globalVars, mainVars, level, transcript, transcripts, res,
                    calls, alarms, evidence, listenerVars, lin >>

SpecJudge ==
    InitJudge /\ [][JudgeStep]_vars


(***************************************************************************)
(* Properties.                                                             *)
(***************************************************************************)
IsPrefix(a, b) ==
    /\ Len(a) <= Len(b)
    /\ \A i \in 1..Len(a) : a[i] = b[i]

\* The invocation of escalate_interaction has ended: it returned or raised.
EngineEnded ==
    epc \in {"returned", "raised"}

Unresolved ==
    {"suspicious", "no_response"}

\* C1: no two escalation starts are within ESCALATION_COOLDOWN seconds of each
\* other: every start is stamped more than ESCALATION_COOLDOWN after every
\* earlier start, and last_escalation_time is the latest start.
C1_CooldownBetweenStarts ==
    /\ \A i \in 1..Len(starts) : \A j \in 1..Len(starts) :
          i < j => starts[j] - starts[i] > ESCALATION_COOLDOWN
    /\ starts # <<>> => last_escalation_time = starts[Len(starts)]
    /\ starts = <<>> => last_escalation_time = 0

\* C1 witness: a second escalation has been started.
C1_SecondStart ==
    /\ Len(starts) = 2
    /\ mpc = "escalating"

\* C2: every invocation of escalate_interaction ends with exactly one outcome,
\* stand_down or record_and_warn, with at most one evidence write and at most
\* one alarm, and with neither on stand_down.
C2_OneOutcomePerInvocation ==
    /\ alarms <= 1
    /\ Len(evidence) <= 1
    /\ EngineEnded => res.action \in {"stand_down", "record_and_warn"}
    /\ res.action = "stand_down" => alarms = 0 /\ evidence = <<>>

CanonicalCalls ==
    << <<"prompt", 1>>, <<"listen", 1>>, <<"judge", 1>>,
       <<"prompt", 2>>, <<"listen", 2>>, <<"judge", 2>>,
       <<"prompt", 3>>, <<"listen", 3>>, <<"judge", 3>> >>

\* C3: within one invocation the levels run in the order 1, 2, 3, none skipped
\* and none repeated, each level's prompt before its listen and its listen
\* before its judgement, and a level after the first is prompted only when
\* the level before it was judged suspicious or no_response.
C3_LevelsInOrder ==
    /\ IsPrefix(calls, CanonicalCalls)
    /\ \A i \in 1..Len(transcripts) : transcripts[i][1] = i
    /\ \A i \in 1..Len(calls) :
          (calls[i][1] = "prompt" /\ calls[i][2] > 1) =>
             /\ Len(transcripts) >= calls[i][2] - 1
             /\ judge_reply(transcripts[calls[i][2] - 1][2]) \in Unresolved

\* C3 witness: all three levels have been prompted, listened to and judged.
C3_AllLevelsRan ==
    /\ Len(calls) = 9
    /\ Len(transcripts) = 3

\* C4: a reply judged ok at level k ends the invocation at once with outcome
\* stand_down at level k carrying that level's transcript, with no alarm and
\* no evidence write and no level after k run; and stand_down is the outcome
\* of an ok judgement only.
C4_OkStandsDown ==
    /\ (mpc = "escalating" /\ judgement = "ok") =>
          /\ epc = "returned"
          /\ res = [action |-> "stand_down", level |-> level,
                    transcript |-> transcript]
          /\ alarms = 0
          /\ evidence = <<>>
          /\ Len(calls) = 3 * level
          /\ transcripts[level] = <<level, transcript>>
          /\ \A i \in 1..Len(calls) : calls[i][2] <= level
    /\ res.action = "stand_down" =>
          /\ judgement = "ok"
          /\ judge_reply(res.transcript) = "ok"

\* C4 witness: ok at level 2 has ended the invocation.
C4_OkAtLevelTwo ==
    /\ epc = "returned"
    /\ res.action = "stand_down"
    /\ res.level = 2

\* C5: a run judged suspicious at levels 1 and 2 and refuse at level 3 returns
\* record_and_warn at level 3 after one alarm and one evidence write whose
\* transcript contains the text of all three levels.
C5_RefuseAtThreeRecordsAllLevels ==
    ( /\ epc = "returned"
      /\ Len(transcripts) = 3
      /\ judge_reply(transcripts[1][2]) = "suspicious"
      /\ judge_reply(transcripts[2][2]) = "suspicious"
      /\ judge_reply(transcripts[3][2]) = "refuse" ) =>
         /\ res.action = "record_and_warn"
         /\ res.level = 3
         /\ alarms = 1
         /\ Len(evidence) = 1
         /\ \A i \in 1..3 : Contains(transcripts[i][2], evidence[1].text)

TaggedLine(l, t) ==
    <<"L", Digit(l), ":", " ">> \o t \o <<"\n">>

\* C6: a run whose three levels are all judged suspicious or no_response ends
\* with outcome record_and_warn at level 3, one alarm, and one evidence record
\* holding each level's transcript tagged with its level, empty ones included.
C6_UnresolvedRecordsAndWarns ==
    ( /\ EngineEnded
      /\ Len(transcripts) = 3
      /\ \A i \in 1..3 : judge_reply(transcripts[i][2]) \in Unresolved ) =>
         /\ res.action = "record_and_warn"
         /\ res.level = 3
         /\ alarms = 1
         /\ Len(evidence) = 1
         /\ evidence[1].text = TaggedLine(1, transcripts[1][2])
                                 \o TaggedLine(2, transcripts[2][2])
                                 \o TaggedLine(3, transcripts[3][2])

HasAny(kws, t) ==
    \E kw \in kws : Contains(kw, Lower(t))

\* C7: judge_reply gives every transcript exactly one of ok, refuse,
\* no_response, suspicious, by the first rule that matches: a cooperative
\* phrase, ok; a defiant phrase, refuse; fewer than 3 characters, no_response;
\* otherwise suspicious.
C7_JudgeReplyFirstMatch ==
    epc = "judged" =>
       /\ judgement \in {"ok", "refuse", "no_response", "suspicious"}
       /\ judgement =
             IF HasAny(CooperativeKeywords, transcript) THEN "ok"
             ELSE IF HasAny(DefiantKeywords, transcript) THEN "refuse"
             ELSE IF Len(transcript) < 3 THEN "no_response"
             ELSE "suspicious"

\* C7 witness: the two-character transcript "no" has been judged refuse.
C7_ShortDefiantJudged ==
    /\ epc = "judged"
    /\ transcript = <<"n", "o">>
    /\ judgement = "refuse"

\* C8: whenever no mode operation is in progress, protect_mode is a mode that
\* the arm/disarm transitions and toggles performed so far give when they are
\* applied one at a time in an order their real-time order allows.
C8_ModeAsIfOneAtATime ==
    (~ListenerPending /\ ~TogglePending) => protect_mode \in { c.m : c \in lin }

\* C9: the activation listener and escalate_interaction are never both inside
\* a microphone listen call.
C9_MicrophoneNeverShared ==
    ~(lpc = "listen" /\ epc = "listen")

\* C10: with no trusted embedding loaded the surveillance loop raises no error,
\* and every frame with a detected face gets the verdict "Unknown".
C10_ZeroTrustedTolerated ==
    trusted_names = <<>> =>
       /\ mpc # "raised"
       /\ boxes > 0 => name = "Unknown"

\* The trusted identities with an embedding closer than the threshold.
NamesBelow ==
    { trusted_names[i] : i \in { j \in 1..Len(distances) :
                                    distances[j] < FACE_MATCH_THRESHOLD } }

\* C11: with a non-empty trusted set, when exactly one trusted identity has a
\* distance strictly below the threshold the verdict is that identity's name,
\* and when every distance is at or above the threshold the verdict is
\* "Unknown".
C11_MatchVerdict ==
    (mpc = "cooldown" /\ trusted_names # <<>>) =>
       /\ Len(distances) = Len(trusted_names)
       /\ Cardinality(NamesBelow) = 1 => name \in NamesBelow
       /\ NamesBelow = {} => name = "Unknown"

\* C11 witness: the first distance equals the threshold, the second is below
\* it, and the verdict is the second embedding's name.
C11_SecondBelowFirstAtThreshold ==
    /\ mpc = "cooldown"
    /\ Len(distances) >= 2
    /\ distances[1] = FACE_MATCH_THRESHOLD
    /\ distances[2] < FACE_MATCH_THRESHOLD
    /\ name = trusted_names[2]
    /\ name # trusted_names[1]

LastCall ==
    IF calls = <<>> THEN "none" ELSE calls[Len(calls)][1]

\* C12: no error of the speech channel while a level acquires the microphone
\* and listens aborts the escalation: an invocation never ends without an
\* outcome before the level it reached has been listened to and judged, and
\* every listen, failed or not, is followed by that level's judgement.
C12_SpeechErrorsNeverAbort ==
    /\ epc = "raised" => LastCall = "judge"
    /\ LastCall = "listen" => epc = "judge"

\* C13: a failed evidence write does not cost the invocation its outcome: once
\* the alarm has been started the invocation ends with record_and_warn at the
\* level reached, and main_loop goes on.
C13_EvidenceFailureNotFatal ==
    (alarms = 1 /\ EngineEnded) =>
       /\ res.action = "record_and_warn"
       /\ res.level = level
       /\ mpc = "escalating"

\* C14: no sensor or service error ends the activation listener: it leaves its
\* loop only after the shutdown flag has been cleared.
C14_ListenerSurvivesErrors ==
    lpc = "exited" => ~listening_thread_running

\* C15: whenever main_loop has stopped (quit key, failed frame read, camera not
\* opened) the listener's flag listening_thread_running has been cleared, and
\* a listener that found it cleared is in no further listen call.
C15_StopClearsFlag ==
    /\ mpc = "done" => ~listening_thread_running
    /\ (lpc = "exited" /\ ~listening_thread_running) => mpc = "done"

\* C16: in handling an utterance the listener arms exactly when the text holds
\* the activation phrase and the mode is Disarmed, and otherwise disarms
\* exactly when the text holds the deactivation phrase and the mode is Armed;
\* no other step of the listener (another text, a timeout, an untranscribable
\* utterance, activating while Armed, deactivating while Disarmed) changes the
\* mode.
C16_ListenerTransitions ==
    [][ lpc' # lpc =>
          /\ protect_mode' # protect_mode =>
                \/ lpc = "arm" /\ Contains(ACTIVATION_PHRASE, text)
                                /\ ~protect_mode /\ protect_mode'
                \/ lpc = "disarm" /\ Contains(DEACTIVATION_PHRASE, text)
                                   /\ protect_mode /\ ~protect_mode'
          /\ lpc = "check_act" =>
                IF Contains(ACTIVATION_PHRASE, text) /\ ~protect_mode
                THEN lpc' = "arm" ELSE lpc' = "check_deact"
          /\ lpc = "check_deact" =>
                IF Contains(DEACTIVATION_PHRASE, text) /\ protect_mode
                THEN lpc' = "disarm" ELSE lpc' = "loop"
          /\ lpc = "arm" => protect_mode' /\ lpc' = "loop"
          /\ lpc = "disarm" => ~protect_mode' /\ lpc' = "loop"
      ]_vars

\* C16 witness: the listener armed the mode by voice (main_loop has not run
\* yet) and now handles a second activation phrase while Armed.
C16_ActivationWhileArmed ==
    /\ mpc = "open"
    /\ protect_mode
    /\ lpc = "check_deact"
    /\ Contains(ACTIVATION_PHRASE, text)

\* C17: escalate_interaction is entered only from a frame iteration that read
\* protect_mode set, found a face, gave it the verdict "Unknown" and found the
\* cooldown elapsed, and last_escalation_time is set to the current time in
\* the step that enters it; an iteration that read the mode cleared, found no
\* face or a trusted face goes on to the key without starting an escalation,
\* and last_escalation_time changes in no other step.
C17_EscalationOnlyFromArmedUnknown ==
    [][ /\ (mpc' # mpc /\ mpc' = "detect") => (mpc = "read" /\ protect_mode)
        /\ (mpc' # mpc /\ mpc' = "cooldown") => (mpc = "detect" /\ boxes' > 0)
        /\ (mpc' # mpc /\ mpc' = "stamp") =>
              /\ mpc = "cooldown"
              /\ boxes > 0
              /\ name = "Unknown"
              /\ clock' - last_escalation_time > ESCALATION_COOLDOWN
        /\ (epc = "idle" /\ epc' # "idle") =>
              /\ mpc = "stamp"
              /\ mpc' = "escalating"
              /\ epc' = "mic"
              /\ last_escalation_time' = clock'
        /\ last_escalation_time' # last_escalation_time =>
              (mpc = "stamp" /\ epc' = "mic")
        /\ (mpc' # mpc /\ mpc = "read" /\ ~protect_mode) =>
              mpc' \in {"key", "cleanup"}
        /\ (mpc' # mpc /\ mpc = "detect" /\ boxes' = 0) => mpc' = "key"
        /\ (mpc' # mpc /\ mpc = "cooldown" /\ name # "Unknown") => mpc' = "key"
      ]_vars

\* C17 witness: an escalation has just been entered for an unknown face, the
\* start stamped with the current time.
C17_EscalationEntered ==
    /\ mpc = "escalating"
    /\ epc = "mic"
    /\ boxes > 0
    /\ name = "Unknown"
    /\ last_escalation_time = clock

\* C18: a reply judged refuse at level k ends the invocation at once with
\* outcome record_and_warn at level k, no level after k run, the alarm started
\* exactly once and exactly one evidence record written, holding the
\* transcript of level k alone.
C18_RefuseRecordsThisLevel ==
    /\ (mpc # "key" /\ judgement = "refuse") =>
          /\ alarms = 1
          /\ level \in FirstLevel..LastLevel
          /\ Len(calls) = 3 * level
          /\ epc \in {"evidence", "returned", "raised"}
    /\ (judgement = "refuse" /\ EngineEnded) =>
          /\ res = [action |-> "record_and_warn", level |-> level,
                    transcript |-> transcript]
          /\ Len(evidence) = 1
          /\ evidence[1].text = transcript
          /\ transcripts[level] = <<level, transcript>>

Outcomes ==
    {"stand_down", "record_and_warn"}

\* C19: an escalation that has been started eventually returns a terminal
\* outcome, stand_down or record_and_warn, at one of the levels 1 to 3; and a
\* change of protect_mode while it runs changes nothing of the escalation.
C19_EscalationRunsToOutcome ==
    /\ (epc = "mic") ~> (epc = "returned" /\ res.action \in Outcomes
                                          /\ res.level \in FirstLevel..LastLevel)
    /\ [][(epc # "idle" /\ protect_mode' # protect_mode) =>
              UNCHANGED << engineVars, mpc >>]_vars

\* C20: at most one escalation is in flight and main_loop is blocked in the
\* call for the whole of it: from the start of an escalation to its return
\* the loop reads no frame, detects nothing, handles no toggle and no quit
\* key and stamps no second start, and it goes on only when the escalation
\* has returned.
C20_LoopBlockedDuringEscalation ==
    [][ epc # "idle" =>
          /\ mpc \in {"escalating", "raised"}
          /\ epc' # "idle" =>
                /\ mpc' \in {"escalating", "raised"}
                /\ UNCHANGED << boxes, distances, name, tread, starts,
                                last_escalation_time, listening_thread_running >>
          /\ epc' = "idle" => (epc = "returned" /\ mpc' = "key")
      ]_vars

\* C20 witness: the third level of an escalation is being listened to while
\* main_loop waits in the call.
C20_ThirdLevelInFlight ==
    /\ mpc = "escalating"
    /\ epc = "listen"
    /\ level = LastLevel
    /\ Len(starts) = 1

====
